---- MODULE Spec2Model ----
(***************************************************************************)
(* Model of the ICD-11 mapping pipeline of Medibridge2:                    *)
(*   convert_icd11_to_json.py  - the offline build of icd11_dict.json      *)
(*   mednlp_service.py         - the service start-up and POST /analyze    *)
(*                                                                         *)
(* A Python str is a sequence of one-character strings; None and a key     *)
(* that a row dict does not hold are two reserved one-element sequences    *)
(* that no string of the model equals.                                     *)
(***************************************************************************)
EXTENDS Naturals, Sequences, FiniteSets, TLC

VARIABLES
    bpc,          \* position of the build script: "loop", "done", "aborted";
                  \* "exited" once its process is gone
    row,          \* the loop variable of the build: the row read last
    used,         \* characters of the input file the reader has consumed
    icd_dict,     \* the dict the build fills
    output_file,  \* content of icd11_dict.json
    printed,      \* the count the build prints (a sequence of at most one number)
    accepted,     \* history: how many rows the build has accepted
    pc,           \* position of the service: "off", "load_model", "load_dict",
                  \* "serving", "crashed"
    nlp,          \* "unloaded" or "loaded"
    ICD11_DICT,   \* the table the service resolves against
    request,      \* the AnalyzeRequest handled last
    text,         \* the text analyze built from the request (line 58)
    doc,          \* what the extractor was given and returned
    response      \* the HTTP response of the request handled last

vars == <<bpc, row, used, icd_dict, output_file, printed, accepted,
          pc, nlp, ICD11_DICT, request, text, doc, response>>

buildVars == <<bpc, row, used, icd_dict, output_file, printed, accepted>>
serviceVars == <<pc, nlp, ICD11_DICT, request, text, doc, response>>

---------------------------------------------------------------------------
(* Bounds *)

\* characters of the input file: a row costs one plus the length of its Title
MaxFileChars == 5
\* entities the extractor returns for one request
MaxEnts == 3
\* rows of the input files whose tables the service is started on
MaxTableRows == 2
\* longest Title of the one-row files of the round trip
MaxTitleLen == 3
\* spaces the extractor leaves on either side of an entity text in the round trip
MaxPad == 1

---------------------------------------------------------------------------
(* Python values and str methods *)

None == <<"None">>
Absent == <<"Absent">>
Whitespace == {" "}
Quote == "\""
Hyphen == "-"

\* bool(s) of a str or None
Truthy(s) == s # <<>> /\ s # None

RECURSIVE lstrip(_, _)
lstrip(s, chars) ==
    IF s # <<>> /\ Head(s) \in chars THEN lstrip(Tail(s), chars) ELSE s

RECURSIVE rstrip(_, _)
rstrip(s, chars) ==
    IF s # <<>> /\ s[Len(s)] \in chars
    THEN rstrip(SubSeq(s, 1, Len(s) - 1), chars)
    ELSE s

\* s.strip() is strip(s, Whitespace); s.strip('"') is strip(s, {Quote})
strip(s, chars) == rstrip(lstrip(s, chars), chars)

\* s.replace(old, "")
replace(s, old) == SelectSeq(s, LAMBDA c : c # old)

LowerChar(c) == IF c = "A" THEN "a" ELSE IF c = "B" THEN "b" ELSE c

\* s.lower()
lower(s) == [i \in 1..Len(s) |-> LowerChar(s[i])]

RECURSIVE join(_, _)
\* sep.join(parts)
join(sep, parts) ==
    IF parts = <<>> THEN <<>>
    ELSE IF Len(parts) = 1 THEN parts[1]
    ELSE parts[1] \o sep \o join(sep, Tail(parts))

RECURSIVE StringsUpTo(_, _)
\* the strings of at most n characters of alphabet
StringsUpTo(alphabet, n) ==
    IF n = 0 THEN {<<>>}
    ELSE LET shorter == StringsUpTo(alphabet, n - 1)
         IN  shorter \cup {Append(s, c) : s \in shorter, c \in alphabet}

---------------------------------------------------------------------------
(* convert_icd11_to_json.py *)

Fields == {"Code", "Title", "ClassKind"}
Category == <<"category">>
EmptyDict == <<>>
NoRow == [Code |-> Absent, Title |-> Absent, ClassKind |-> Absent]

\* row.get(field, ""): csv.DictReader sets a field the row is too short for to
\* None, and holds no key for a column the header does not name
RowGet(r, field) == IF r[field] = Absent THEN <<>> ELSE r[field]

\* .strip() of None raises AttributeError
RowRaises(r) == \E f \in Fields : RowGet(r, f) = None

StripField(r, field) == strip(RowGet(r, field), Whitespace)

CleanTitleKeepHyphens(t) ==
    strip(strip(strip(t, Whitespace), {Quote}), Whitespace)

\* line 13
CleanTitle(t) ==
    strip(replace(strip(strip(t, Whitespace), {Quote}), Hyphen), Whitespace)

\* line 16
Accepted(code, title, class_kind) ==
    Truthy(code) /\ Truthy(title) /\ class_kind = Category

TitleKeyUnfolded(title) == title

\* line 17
TitleKey(title) == lower(title)

SetDefault(d, key, entry) ==
    [k \in DOMAIN d \cup {key} |-> IF k \in DOMAIN d THEN d[k] ELSE entry]

\* icd_dict[key] = entry
SetItem(d, key, entry) ==
    [k \in DOMAIN d \cup {key} |-> IF k = key THEN entry ELSE d[k]]

\* lines 12-16: whether the if of line 16 lets a row that raises nothing in
RowAccepted(r) ==
    Accepted(StripField(r, "Code"), CleanTitle(RowGet(r, "Title")),
             StripField(r, "ClassKind"))

\* lines 12-18 on a row that raises nothing
RowStep(d, r) ==
    LET code == StripField(r, "Code")
        title == CleanTitle(RowGet(r, "Title"))
    IN  IF RowAccepted(r)
        THEN SetItem(d, TitleKey(title), [code |-> code, desc |-> title])
        ELSE d

RowCost(r) == 1 + (IF r.Title \in {None, Absent} THEN 0 ELSE Len(r.Title))

\* one iteration of the loop of lines 11-18, on a row the reader yields from
\* what is left of a file of at most limit characters
ProcessRow(rows, limit) ==
    /\ bpc = "loop"
    /\ \E r \in rows :
        /\ used + RowCost(r) <= limit
        /\ row' = r
        /\ used' = used + RowCost(r)
        /\ IF RowRaises(r)
           THEN bpc' = "aborted" /\ icd_dict' = icd_dict /\ accepted' = accepted
           ELSE /\ bpc' = "loop"
                /\ icd_dict' = RowStep(icd_dict, r)
                /\ accepted' = IF RowAccepted(r) THEN accepted + 1 ELSE accepted
    /\ UNCHANGED <<output_file, printed>>

\* lines 20-23, once the reader is exhausted
WriteOutput ==
    /\ bpc = "loop"
    /\ bpc' = "done"
    /\ output_file' = <<icd_dict>>
    /\ printed' = <<Cardinality(DOMAIN icd_dict)>>
    /\ UNCHANGED <<row, used, icd_dict, accepted>>

---------------------------------------------------------------------------
(* Inputs of the build *)

TitleAlphabet == {"a", "A", Hyphen, Quote, " "}
Codes == {<<"X">>, <<"Y">>}

WellFormedRows(titles) ==
    [Code : Codes, Title : titles, ClassKind : {Category}]

\* rows the build rejects or chokes on, and padded fields
OddRows ==
    [Code : {<<"X">>, <<>>, <<" ">>, <<" ", "X", " ">>, None, Absent},
     Title : {<<"a">>, None, Absent},
     ClassKind : {Category, <<" ", "category">>, <<"chapter">>, <<>>, None, Absent}]

BuildRows == WellFormedRows(StringsUpTo(TitleAlphabet, MaxFileChars - 1)) \cup OddRows

\* the service between two requests: no request, no extractor call, no response
NoRequest == [diagnosis |-> None, prescription |-> None, treatment |-> None]
NoDoc == [called |-> FALSE, raised |-> FALSE, ents |-> <<>>]
NoResponse == [status |-> 0, entities |-> <<>>, icd_codes |-> <<>>]

BuildInit ==
    /\ bpc = "loop"
    /\ row = NoRow
    /\ used = 0
    /\ icd_dict = EmptyDict
    /\ output_file = <<>>
    /\ printed = <<>>
    /\ accepted = 0

ServiceOff ==
    /\ pc = "off"
    /\ nlp = "unloaded"
    /\ ICD11_DICT = EmptyDict
    /\ request = NoRequest
    /\ text = <<>>
    /\ doc = NoDoc
    /\ response = NoResponse

InitBuild == BuildInit /\ ServiceOff

NextBuild ==
    \/ ProcessRow(BuildRows, MaxFileChars) /\ UNCHANGED serviceVars
    \/ WriteOutput /\ UNCHANGED serviceVars

BuildSpec == InitBuild /\ [][NextBuild]_vars

---------------------------------------------------------------------------
(* mednlp_service.py: start-up, lines 15-31 *)

ModelFailureContinues == "load_dict"

\* lines 19-21: the except clause logs and re-raises
ModelFailure == "crashed"

\* lines 29-31: the except clause logs and falls back to {}
DictFailure == [pc |-> "serving", table |-> EmptyDict]

\* line 17 succeeds
LoadModelOk ==
    /\ pc = "load_model"
    /\ nlp' = "loaded"
    /\ pc' = "load_dict"
    /\ UNCHANGED <<ICD11_DICT, request, text, doc, response>>

\* line 17 raises
LoadModelFail ==
    /\ pc = "load_model"
    /\ pc' = ModelFailure
    /\ UNCHANGED <<nlp, ICD11_DICT, request, text, doc, response>>

\* lines 26-28: the file is there and json.load returns the mapping it holds
LoadDictOk ==
    /\ pc = "load_dict"
    /\ output_file # <<>>
    /\ ICD11_DICT' = output_file[1]
    /\ pc' = "serving"
    /\ UNCHANGED <<nlp, request, text, doc, response>>

\* line 26 raises: there is no file at ICD11_DICT_PATH
LoadDictFail ==
    /\ pc = "load_dict"
    /\ output_file = <<>>
    /\ ICD11_DICT' = DictFailure.table
    /\ pc' = DictFailure.pc
    /\ UNCHANGED <<nlp, request, text, doc, response>>

---------------------------------------------------------------------------
(* mednlp_service.py: analyze, lines 56-99 *)

\* v or ""
OrEmpty(v) == IF Truthy(v) THEN v ELSE <<>>

\* line 58
RequestText(req) ==
    strip(join(<<" ">>, <<OrEmpty(req.diagnosis), OrEmpty(req.prescription),
                          OrEmpty(req.treatment)>>),
          Whitespace)

\* line 68
EntText(ent) == lower(strip(ent.text, Whitespace))

\* line 69: ICD11_DICT.get(ent_text), a sequence of at most one entry
DictGet(table, key) == IF key \in DOMAIN table THEN <<table[key]>> ELSE <<>>

ConfidenceAlwaysHit(icd_info) == "1.0"

\* line 72: icd_info is truthy when the key is there, every entry of a table
\* the build writes being a non-empty dict
Confidence(icd_info) == IF icd_info # <<>> THEN "1.0" ELSE "0.0"

\* lines 70-79 and 88-94: the entry of entities for one extracted entity. The
\* entries of the table are the dicts the build writes, so that of the two
\* branches of line 75 the first is the one taken.
Resolve(ent, icd_info) ==
    [text |-> ent.text,
     label |-> ent.label,
     icd_code |-> IF icd_info # <<>> THEN icd_info[1].code ELSE None,
     icd_description |-> IF icd_info # <<>> THEN icd_info[1].desc ELSE None,
     confidence |-> Confidence(icd_info)]

IsNewCodeUnseen(icd_code, seen_codes) == Truthy(icd_code)

\* line 80
IsNewCode(icd_code, seen_codes) == Truthy(icd_code) /\ icd_code \notin seen_codes

CodeItemNormalized(ent, r) ==
    [entity |-> EntText(ent), icd_code |-> r.icd_code,
     icd_description |-> r.icd_description, confidence |-> r.confidence]

\* lines 81-86
CodeItem(ent, r) ==
    [entity |-> ent.text, icd_code |-> r.icd_code,
     icd_description |-> r.icd_description, confidence |-> r.confidence]

RECURSIVE ForEachEnt(_, _, _, _, _)
\* the loop of lines 67-94 over what is left of doc.ents
ForEachEnt(table, ents, entities, icd_codes, seen_codes) ==
    IF ents = <<>>
    THEN [entities |-> entities, icd_codes |-> icd_codes]
    ELSE LET ent == Head(ents)
             icd_info == DictGet(table, EntText(ent))
             r == Resolve(ent, icd_info)
             new == icd_info # <<>> /\ IsNewCode(r.icd_code, seen_codes)
         IN  ForEachEnt(table, Tail(ents),
                        Append(entities, r),
                        IF new THEN Append(icd_codes, CodeItem(ent, r)) ELSE icd_codes,
                        IF new THEN seen_codes \cup {r.icd_code} ELSE seen_codes)

\* lines 59-60 and 97-99: the HTTPException of line 60 is raised inside the
\* try block and `except Exception` catches it like any other
EmptyTextStatus == 500

\* lines 97-99 for what nlp() raises
InternalStatus == 500

\* the body of analyze for a request and what the extractor does when called
Analyze(table, req, outcome) ==
    LET t == RequestText(req)
    IN  IF ~Truthy(t)
        THEN [text |-> t,
              doc |-> [called |-> FALSE, raised |-> FALSE, ents |-> <<>>],
              response |-> [status |-> EmptyTextStatus, entities |-> <<>>,
                            icd_codes |-> <<>>]]
        ELSE IF outcome.raised
        THEN [text |-> t,
              doc |-> [called |-> TRUE, raised |-> TRUE, ents |-> <<>>],
              response |-> [status |-> InternalStatus, entities |-> <<>>,
                            icd_codes |-> <<>>]]
        ELSE LET out == ForEachEnt(table, outcome.ents, <<>>, <<>>, {})
             IN  [text |-> t,
                  doc |-> [called |-> TRUE, raised |-> FALSE, ents |-> outcome.ents],
                  response |-> [status |-> 200, entities |-> out.entities,
                                icd_codes |-> out.icd_codes]]

\* POST /analyze: the handler, from the request to the response it leaves
AnalyzeRequest(requests, outcomes) ==
    /\ pc = "serving"
    /\ response = NoResponse
    /\ \E req \in requests, outcome \in outcomes :
           LET a == Analyze(ICD11_DICT, req, outcome)
           IN  /\ request' = req
               /\ text' = a.text
               /\ doc' = a.doc
               /\ response' = a.response
    /\ UNCHANGED <<pc, nlp, ICD11_DICT>>

\* the response is sent and the locals of the call are gone
Return ==
    /\ pc = "serving"
    /\ response # NoResponse
    /\ request' = NoRequest
    /\ text' = <<>>
    /\ doc' = NoDoc
    /\ response' = NoResponse
    /\ UNCHANGED <<pc, nlp, ICD11_DICT>>

\* GET /health, lines 51-53
Health ==
    /\ pc = "serving"
    /\ UNCHANGED serviceVars

---------------------------------------------------------------------------
(* Inputs of the service *)

RECURSIVE SeqsUpTo(_, _)
SeqsUpTo(S, n) ==
    IF n = 0 THEN {<<>>}
    ELSE LET shorter == SeqsUpTo(S, n - 1)
         IN  shorter \cup {Append(s, x) : s \in shorter, x \in S}

RECURSIVE BuildTable(_, _)
\* the dict the build is left with after the rows rs, none of which raises
BuildTable(d, rs) == IF rs = <<>> THEN d ELSE BuildTable(RowStep(d, Head(rs)), Tail(rs))

ServiceTitles == {<<"a">>, <<"A">>, <<"b">>}
BuiltTables ==
    {BuildTable(EmptyDict, rs) : rs \in SeqsUpTo(WellFormedRows(ServiceTitles), MaxTableRows)}

FieldValues == {None, <<>>, <<" ">>, <<"a">>}
Requests == [diagnosis : FieldValues, prescription : FieldValues, treatment : FieldValues]

EntTexts == {<<"a">>, <<" ", "A", " ">>, <<"b">>, <<"c">>}
Ents(texts) == [text : texts, label : {"ENTITY"}]
Outcomes(texts, n) ==
    {[raised |-> TRUE, ents |-> <<>>]}
        \cup {[raised |-> FALSE, ents |-> es] : es \in SeqsUpTo(Ents(texts), n)}

ServiceOutcomes == Outcomes(EntTexts, MaxEnts)

\* the service is started where a build has written its file and exited, or
\* where there is no file
Init ==
    /\ bpc = "exited"
    /\ row = NoRow
    /\ used = 0
    /\ icd_dict = EmptyDict
    /\ printed = <<>>
    /\ accepted = 0
    /\ output_file \in {<<>>} \cup {<<t>> : t \in BuiltTables}
    /\ pc = "load_model"
    /\ nlp = "unloaded"
    /\ ICD11_DICT = EmptyDict
    /\ request = NoRequest
    /\ text = <<>>
    /\ doc = NoDoc
    /\ response = NoResponse

Next ==
    \/ LoadModelOk /\ UNCHANGED buildVars
    \/ LoadModelFail /\ UNCHANGED buildVars
    \/ LoadDictOk /\ UNCHANGED buildVars
    \/ LoadDictFail /\ UNCHANGED buildVars
    \/ Health /\ UNCHANGED buildVars
    \/ Return /\ UNCHANGED buildVars
    \/ AnalyzeRequest(Requests, ServiceOutcomes) /\ UNCHANGED buildVars

Spec == Init /\ [][Next]_vars

---------------------------------------------------------------------------
(* The build and the service side by side: the service loads whatever the
   build has written by the time line 26 runs, and the extractor returns one
   entity that spells a description of the loaded table in some letter case,
   with spaces around it *)

Cases(c) == IF c \in {"a", "A"} THEN {"a", "A"} ELSE {c}

RECURSIVE Recased(_)
\* the spellings of s that differ from it in letter case only
Recased(s) ==
    IF s = <<>> THEN {<<>>}
    ELSE {<<c>> \o rest : c \in Cases(Head(s)), rest \in Recased(Tail(s))}

Pads == StringsUpTo(Whitespace, MaxPad)

Variants(desc) == {l \o t \o r : l \in Pads, t \in Recased(desc), r \in Pads}

RoundTripRows == WellFormedRows(StringsUpTo(TitleAlphabet, MaxTitleLen))
RoundTripRequests == {[diagnosis |-> <<"a">>, prescription |-> <<>>, treatment |-> None]}
RoundTripOutcomes ==
    {[raised |-> FALSE, ents |-> <<ent>>] :
        ent \in Ents(UNION {Variants(ICD11_DICT[k].desc) : k \in DOMAIN ICD11_DICT})}

InitRoundTrip ==
    /\ BuildInit
    /\ pc = "load_model"
    /\ nlp = "unloaded"
    /\ ICD11_DICT = EmptyDict
    /\ request = NoRequest
    /\ text = <<>>
    /\ doc = NoDoc
    /\ response = NoResponse

NextRoundTrip ==
    \/ ProcessRow(RoundTripRows, MaxTitleLen + 1) /\ UNCHANGED serviceVars
    \/ WriteOutput /\ UNCHANGED serviceVars
    \/ LoadModelOk /\ UNCHANGED buildVars
    \/ LoadModelFail /\ UNCHANGED buildVars
    \/ LoadDictOk /\ UNCHANGED buildVars
    \/ LoadDictFail /\ UNCHANGED buildVars
    \/ AnalyzeRequest(RoundTripRequests, RoundTripOutcomes) /\ UNCHANGED buildVars
    \/ Return /\ UNCHANGED buildVars

RoundTripSpec == InitRoundTrip /\ [][NextRoundTrip]_vars

---------------------------------------------------------------------------
(* Properties of analyze, under Spec *)

RequestFields == {"diagnosis", "prescription", "treatment"}

\* a field that is absent, empty or whitespace only
Blank(v) == ~Truthy(v) \/ strip(v, Whitespace) = <<>>

Answered == pc = "serving" /\ response # NoResponse

\* the entities of the last call that analyze resolved to code c
ResolvedTo(c) == {j \in 1..Len(response.entities) : response.entities[j].icd_code = c}

\* the extraction position of the first entity that resolved to c
FirstResolvedTo(c) == CHOOSE j \in ResolvedTo(c) : \A k \in ResolvedTo(c) : j <= k

\* C1: a request whose diagnosis, prescription and treatment are all empty or
\* whitespace only ends with the InvalidInput outcome, HTTP 400, which is not
\* the Internal outcome, HTTP 500, of an unexpected error; the extractor is
\* not called.
C1_BlankRequestIsInvalidInput ==
    (Answered /\ \A f \in RequestFields : Blank(request[f]))
        => response.status = 400 /\ response.status # InternalStatus /\ ~doc.called

\* C2: the icd_codes list analyze returns never holds two entries with the
\* same icd_code, whatever the table and the extracted entities.
C2_NoDuplicateCodes ==
    \A i, j \in 1..Len(response.icd_codes) :
        i # j => response.icd_codes[i].icd_code # response.icd_codes[j].icd_code

\* two entities with different keys resolved to one code, listed once
C2_Witness ==
    /\ response.status = 200
    /\ Len(response.icd_codes) = 1
    /\ \E i, j \in 1..Len(doc.ents) :
        /\ EntText(doc.ents[i]) # EntText(doc.ents[j])
        /\ response.entities[i].icd_code = response.entities[j].icd_code
        /\ response.entities[i].icd_code # None

\* C3: for every code c of icd_codes, the entry's entity is the text, as
\* extracted, of the first entity that resolved to c, and the entries are in
\* the order of those first entities; a later entity that resolves to c
\* neither replaces nor moves the entry.
C3_FirstOccurrenceWins ==
    response.status = 200 =>
        \A i \in 1..Len(response.icd_codes) :
            LET c == response.icd_codes[i].icd_code
            IN  /\ ResolvedTo(c) # {}
                /\ response.icd_codes[i].entity = doc.ents[FirstResolvedTo(c)].text
                /\ \A h \in 1..(i - 1) :
                       LET b == response.icd_codes[h].icd_code
                       IN  ResolvedTo(b) # {} /\ FirstResolvedTo(b) < FirstResolvedTo(c)

\* two codes, the first of them resolved again, by another spelling, after the
\* second one
C3_Witness ==
    /\ response.status = 200
    /\ Len(response.icd_codes) = 2
    /\ Len(doc.ents) = 3
    /\ response.entities[3].icd_code = response.icd_codes[1].icd_code
    /\ doc.ents[3].text # doc.ents[1].text
    /\ response.icd_codes[1].entity # EntText(doc.ents[1])

\* C4: every extracted entity is resolved one of two ways and never with an
\* error: when its trimmed, lower-cased text is a key of the table, icd_code
\* and icd_description are those of the key's entry and confidence is 1.0;
\* otherwise both are null and confidence is 0.0. So confidence is 1.0
\* exactly when icd_code is not null.
C4_HitOrMiss ==
    (Answered /\ doc.called /\ ~doc.raised) =>
        /\ response.status = 200
        /\ Len(response.entities) = Len(doc.ents)
        /\ \A j \in 1..Len(doc.ents) :
            LET key == lower(strip(doc.ents[j].text, Whitespace))
                r == response.entities[j]
            IN  /\ IF key \in DOMAIN ICD11_DICT
                   THEN /\ r.icd_code = ICD11_DICT[key].code
                        /\ r.icd_description = ICD11_DICT[key].desc
                        /\ r.confidence = "1.0"
                   ELSE /\ r.icd_code = None
                        /\ r.icd_description = None
                        /\ r.confidence = "0.0"
                /\ (r.confidence = "1.0") <=> (r.icd_code # None)

\* a response with a hit, found under a spelling that is not the key, and a miss
C4_Witness ==
    /\ response.status = 200
    /\ \E i, j \in 1..Len(response.entities) :
        /\ response.entities[i].confidence = "1.0"
        /\ doc.ents[i].text \notin DOMAIN ICD11_DICT
        /\ response.entities[j].confidence = "0.0"

C8_State ==
    /\ pc = "serving" => nlp = "loaded"
    /\ nlp = "unloaded" => response = NoResponse
    /\ (pc = "serving" /\ output_file = <<>>) => ICD11_DICT = EmptyDict
    /\ (Answered /\ ICD11_DICT = EmptyDict /\ response.status = 200) =>
        /\ response.icd_codes = <<>>
        /\ Len(response.entities) = Len(doc.ents)
        /\ \A j \in 1..Len(response.entities) :
            /\ response.entities[j].icd_code = None
            /\ response.entities[j].confidence = "0.0"

\* C8: a failure to load the model is fatal: the process never serves, and
\* never answers a request without a model. A failure to load the mapping
\* with the model loaded leaves the service serving on an empty table, where
\* every entity resolves with icd_code null and confidence 0.0 and icd_codes
\* is empty.
C8_StartupFailures ==
    /\ []C8_State
    /\ [][pc = "crashed" => pc' = "crashed"]_vars
    /\ [][(pc = "load_model" /\ nlp' = "unloaded") => pc' \in {"load_model", "crashed"}]_vars

\* no mapping file, and a request with entities answered all the same
C8_Witness ==
    /\ pc = "serving"
    /\ output_file = <<>>
    /\ response.status = 200
    /\ Len(response.entities) = MaxEnts

\* the non-empty fields of a request, in the order of line 58
NonEmptyFields(req) ==
    SelectSeq(<<req.diagnosis, req.prescription, req.treatment>>, Truthy)

\* C9: the text passed to the extractor is the non-empty fields, in the order
\* diagnosis, prescription, treatment, joined by exactly one space and then
\* trimmed; an empty field adds neither text nor a space, wherever it stands.
C9_JoinsNonEmptyFields ==
    (Answered /\ doc.called) =>
        text = strip(join(<<" ">>, NonEmptyFields(request)), Whitespace)

---------------------------------------------------------------------------
(* Properties of the build, under BuildSpec *)

\* a row that lacks one of the three fields: it is shorter than the header,
\* or the header does not name the column
Malformed(r) == \E f \in Fields : r[f] \in {None, Absent}

\* C5: a malformed row, one that lacks Code, Title or ClassKind, is skipped
\* silently: the build does not abort, goes on with the rows that follow, and
\* the table holds what it held before the row.
C5_MalformedRowSkipped ==
    [][(bpc = "loop" /\ used' > used /\ Malformed(row'))
          => bpc' = "loop" /\ icd_dict' = icd_dict]_vars

EdgesOutside(s, chars) == s = <<>> \/ (Head(s) \notin chars /\ s[Len(s)] \notin chars)

C6_Keys ==
    /\ \A key \in DOMAIN icd_dict :
        /\ \A i \in 1..Len(key) : key[i] # Hyphen
        /\ EdgesOutside(key, Whitespace)
        /\ key = lower(icd_dict[key].desc)
        /\ icd_dict[key].code # <<>> /\ icd_dict[key].code # None
        /\ icd_dict[key].desc # <<>> /\ icd_dict[key].desc # None
    /\ (bpc = "loop" /\ used > 0 /\ RowAccepted(row)) =>
        LET key == lower(strip(replace(strip(strip(row.Title, Whitespace), {Quote}),
                                       Hyphen), Whitespace))
        IN  key \in DOMAIN icd_dict

\* C6, as amended: every key of the built table is the case-folded,
\* hyphen-stripped, surrounding-double-quote-stripped, trimmed title of an
\* accepted row, in the order trim, strip quotes, remove hyphens, trim, fold:
\* no key holds a hyphen or starts or ends with whitespace, and every entry
\* has a non-empty code and a non-empty description. A key may start or end
\* with a double quote.
C6_KeysNormalized == C6_Keys

\* C6, as claimed: besides, no key starts or ends with a double quote.
C6_NoEdgeQuote ==
    C6_Keys /\ \A key \in DOMAIN icd_dict : EdgesOutside(key, {Quote})

\* a table with a key that an accepted row's hyphens, quotes, spaces and
\* capitals were taken out of
C6_Witness ==
    /\ bpc = "done"
    /\ accepted > 0
    /\ row.Title # CleanTitle(row.Title)
    /\ CleanTitle(row.Title) # TitleKey(CleanTitle(row.Title))
    /\ TitleKey(CleanTitle(row.Title)) \in DOMAIN output_file[1]

\* C7: when several accepted rows normalize to one key, no error is raised
\* and the table maps the key to the code and description of the last of them;
\* the count reported is the number of distinct keys, not of accepted rows.
C7_LastRowWins ==
    /\ [][(bpc = "loop" /\ used' > used /\ ~RowRaises(row') /\ RowAccepted(row')) =>
            LET key == lower(CleanTitle(row'.Title))
            IN  /\ bpc' = "loop"
                /\ DOMAIN icd_dict' = DOMAIN icd_dict \cup {key}
                /\ icd_dict'[key] = [code |-> strip(row'.Code, Whitespace),
                                     desc |-> CleanTitle(row'.Title)]
                /\ \A k \in DOMAIN icd_dict \ {key} : icd_dict'[k] = icd_dict[k]]_vars
    /\ [](bpc = "done" =>
            /\ output_file = <<icd_dict>>
            /\ printed = <<Cardinality(DOMAIN output_file[1])>>)

\* two accepted rows, one key: the second row's entry is the one written, and
\* the count is 1
C7_Witness ==
    /\ bpc = "done"
    /\ accepted = 2
    /\ printed = <<1>>
    /\ RowAccepted(row)
    /\ output_file[1][lower(CleanTitle(row.Title))] =
           [code |-> <<"Y">>, desc |-> <<"A">>]

---------------------------------------------------------------------------
(* Build and lookup, under RoundTripSpec *)

FixedPoint(key) == lower(strip(key, Whitespace)) = key

\* C10: for every table the build writes and every entry e of it, an entity
\* whose text is e's description, in any letter case and with any whitespace
\* around it, resolves to e's code and description with confidence 1.0: every
\* key the build writes is a fixed point of the resolver's trim and
\* lower-case, so that no entry is out of reach.
C10_BuildLookupSymmetry ==
    /\ \A key \in DOMAIN icd_dict : FixedPoint(key)
    /\ \A key \in DOMAIN ICD11_DICT : FixedPoint(key)
    /\ (Answered /\ response.status = 200) =>
        \A j \in 1..Len(doc.ents), key \in DOMAIN ICD11_DICT :
            doc.ents[j].text \in Variants(ICD11_DICT[key].desc) =>
                /\ response.entities[j].icd_code = ICD11_DICT[key].code
                /\ response.entities[j].icd_description = ICD11_DICT[key].desc
                /\ response.entities[j].confidence = "1.0"

\* a description with a capital, looked up in another case and padded
C10_Witness ==
    /\ Answered
    /\ response.status = 200
    /\ \E key \in DOMAIN ICD11_DICT :
        /\ ICD11_DICT[key].desc # key
        /\ doc.ents[1].text \in Variants(ICD11_DICT[key].desc)
        /\ doc.ents[1].text # ICD11_DICT[key].desc
        /\ Len(doc.ents[1].text) > Len(key)
        /\ response.entities[1].icd_code = ICD11_DICT[key].code

====
